---- MODULE Spec2Model ----
(***************************************************************************)
(* A model of weed/filer2/filer.go: the Filer that maps a slash-separated  *)
(* path namespace onto entries of a pluggable store, creates missing      *)
(* parent directories on write, caches directory entries and reclaims the *)
(* chunks that a write or a delete leaves unreferenced.                   *)
(*                                                                         *)
(* A FullPath is a sequence of one-character strings, so that Split, Join  *)
(* and the trailing-slash handling are computed as the code computes them. *)
(***************************************************************************)
EXTENDS Integers, Sequences, FiniteSets, TLC

VARIABLES
    store,            \* the Entry Store: full path -> entry
    directoryCache,   \* Filer.directoryCache
    disabled,         \* DisableDirectoryCache has been called
    lastOp,           \* the last operation: its arguments, result and calls
    nOps,             \* the number of operations so far
    procs             \* the calls in progress, when callers run concurrently

vars == <<store, directoryCache, disabled, lastOp, nOps, procs>>

(***************************************************************************)
(* Bounds of the model.                                                    *)
(***************************************************************************)
MaxOps == 3
MaxLevel == 60

(***************************************************************************)
(* Strings.                                                                *)
(***************************************************************************)
Slash == "/"

\* The order of the characters the paths of the model are made of.
CharOrd(c) == CASE c = "/" -> 0 [] c = "a" -> 1 [] c = "b" -> 2 [] OTHER -> 3

RECURSIVE LexLess(_, _)
LexLess(x, y) ==
    IF y = <<>> THEN FALSE
    ELSE IF x = <<>> THEN TRUE
    ELSE IF CharOrd(Head(x)) # CharOrd(Head(y)) THEN CharOrd(Head(x)) < CharOrd(Head(y))
    ELSE LexLess(Tail(x), Tail(y))

\* strings.HasSuffix(s, "/")
HasSuffixSlash(s) == Len(s) >= 1 /\ s[Len(s)] = Slash

\* strings.Split(s, "/"): the pieces between the slashes, empty pieces kept.
RECURSIVE SplitFrom(_, _, _, _)
SplitFrom(s, i, cur, acc) ==
    IF i > Len(s) THEN Append(acc, cur)
    ELSE IF s[i] = Slash THEN SplitFrom(s, i + 1, <<>>, Append(acc, cur))
    ELSE SplitFrom(s, i + 1, Append(cur, s[i]), acc)

Split(s) == SplitFrom(s, 1, <<>>, <<>>)

\* filepath.Join(elems...): empty elements are dropped, the others are joined
\* by "/"; no element holds a slash or a dot, so Clean leaves the join alone.
RECURSIVE Join(_)
Join(elems) ==
    IF elems = <<>> THEN <<>>
    ELSE LET rest == Join(Tail(elems))
         IN IF Head(elems) = <<>> THEN rest
            ELSE IF rest = <<>> THEN Head(elems)
            ELSE Head(elems) \o <<Slash>> \o rest

\* dirPath := "/" + filepath.Join(dirParts[:i]...)
DirPath(dirParts, i) == <<Slash>> \o Join(SubSeq(dirParts, 1, i))

(***************************************************************************)
(* Entries.                                                                *)
(***************************************************************************)
Nil == [nil |-> TRUE]

DirPerm == 504    \* 0770

IsDirectory(e) == e.Mode.IsDir

FileIds(chunks) == {chunks[k].FileId : k \in 1..Len(chunks)}

(***************************************************************************)
(* The Entry Store (FilerStore): a map from full path to entry.            *)
(***************************************************************************)
EmptyStore == [q \in {} |-> Nil]

\* store.FindEntry(p): the entry at p, or nil with a not-found error.
StoreFindEntry(st, p) == IF p \in DOMAIN st THEN st[p] ELSE Nil

\* store.InsertEntry(entry), when it succeeds: the entry is stored under its
\* path, in the place of an entry that was there.
StoreInsertEntry(st, entry) == (entry.FullPath :> entry) @@ st

\* store.UpdateEntry(entry), when it succeeds.
StoreUpdateEntry(st, entry) == (entry.FullPath :> entry) @@ st

\* store.DeleteEntry(p), when it succeeds.
StoreDeleteEntry(st, p) == [q \in DOMAIN st \ {p} |-> st[q]]

RECURSIVE LastSlash(_, _)
LastSlash(k, i) == IF i = 0 THEN 0 ELSE IF k[i] = Slash THEN i ELSE LastSlash(k, i - 1)

\* FullPath.DirAndName(): the directory an entry is listed under, and its name.
DirOf(k) ==
    LET i == LastSlash(k, Len(k)) IN IF i <= 1 THEN <<Slash>> ELSE SubSeq(k, 1, i - 1)

NameOf(k) == SubSeq(k, LastSlash(k, Len(k)) + 1, Len(k))

Children(st, p) == {k \in DOMAIN st : DirOf(k) = p /\ k # p}

RECURSIVE SortedByName(_)
SortedByName(keys) ==
    IF keys = {} THEN <<>>
    ELSE LET k == CHOOSE x \in keys : \A y \in keys \ {x} : LexLess(NameOf(x), NameOf(y))
         IN <<k>> \o SortedByName(keys \ {k})

\* store.ListDirectoryEntries(p, startFileName, inclusive, limit): the children
\* of p in name order, from startFileName on, at most limit of them.
StoreListDirectoryEntries(st, p, startFileName, inclusive, limit) ==
    LET from == {k \in Children(st, p) :
                    \/ LexLess(startFileName, NameOf(k))
                    \/ inclusive /\ NameOf(k) = startFileName}
        sorted == SortedByName(from)
        n == IF limit < 0 THEN 0 ELSE IF Len(sorted) < limit THEN Len(sorted) ELSE limit
    IN [k \in 1..n |-> st[sorted[k]]]

(***************************************************************************)
(* The Directory Cache (ccache): nil once disabled, else a map from        *)
(* directory path to the cached entry and the minutes it was given.        *)
(***************************************************************************)
NewCache == [nil |-> FALSE, items |-> [q \in {} |-> Nil]]

NilCache == [nil |-> TRUE, items |-> [q \in {} |-> Nil]]

\* A cache delete that deletes nothing.
cacheDelNothing(dc, dirpath) == dc

cacheDelDirectory(dc, dirpath) ==
    IF dc.nil THEN dc
    ELSE [dc EXCEPT !.items = [q \in DOMAIN dc.items \ {dirpath} |-> dc.items[q]]]

cacheGetDirectory(dc, dirpath) ==
    IF dc.nil THEN Nil
    ELSE IF dirpath \in DOMAIN dc.items THEN dc.items[dirpath].value
    ELSE Nil

\* Minutes that grow with the level.
TTLMinutesRising(level) == IF level < 10 THEN level * 6 ELSE 60

\* The level test off by one.
TTLMinutesThrough10(level) == IF level <= 10 THEN 60 - level * 6 ELSE 60

\* minutes := 60; if level < 10 { minutes -= level * 6 }
TTLMinutes(level) == IF level < 10 THEN 60 - level * 6 ELSE 60

cacheSetDirectory(dc, dirpath, dirEntry, level) ==
    IF dc.nil THEN dc
    ELSE [dc EXCEPT !.items =
            (dirpath :> [value |-> dirEntry, ttl |-> TTLMinutes(level)]) @@ dc.items]

\* The calls that reach the cache object: none when it is nil.
CacheCall(dc, name, dirpath) ==
    IF dc.nil THEN <<>> ELSE <<[call |-> name, path |-> dirpath]>>

(***************************************************************************)
(* Chunk reclamation.  env.lookupFail and env.deleteFail are the chunk     *)
(* identifiers for which the Chunk Locator and the Chunk Deleter fail.     *)
(***************************************************************************)
NoUrl == <<>>

UrlOf(fileId) == <<"volume", fileId>>

\* MasterClient.LookupFileId(fileId): the location, or "" and an error.
LookupFileId(fileId, env) ==
    IF fileId \in env.lookupFail
    THEN [url |-> NoUrl, ok |-> FALSE]
    ELSE [url |-> UrlOf(fileId), ok |-> TRUE]

\* operation.DeleteFromVolumeServer(url, ""): fails on the empty location.
DeleteFromVolumeServer(url, fileId, env) == url # NoUrl /\ fileId \notin env.deleteFail

\* The lookup error is logged and the delete is issued all the same.
DeleteFileByFileId(fileId, env) ==
    LET found == LookupFileId(fileId, env)
    IN << [call |-> "LookupFileId", fileId |-> fileId, url |-> found.url, ok |-> found.ok],
          [call |-> "DeleteFromVolumeServer", fileId |-> fileId, url |-> found.url,
           ok |-> DeleteFromVolumeServer(found.url, fileId, env)] >>

RECURSIVE deleteChunks(_, _)
deleteChunks(chunks, env) ==
    IF chunks = <<>> THEN <<>>
    ELSE DeleteFileByFileId(Head(chunks).FileId, env) \o deleteChunks(Tail(chunks), env)

\* A reclamation that forgets to compare with the new entry.
deleteChunksOfOld(oldEntry, newEntry, env) ==
    IF oldEntry = Nil THEN [calls |-> <<>>, fault |-> FALSE]
    ELSE [calls |-> deleteChunks(oldEntry.Chunks, env), fault |-> FALSE]

\* The chunks of oldEntry whose FileId no chunk of newEntry has.  With a nil
\* newEntry the chunks of oldEntry are deleted and the loop that follows
\* reads newEntry.Chunks: a nil dereference when oldEntry has a chunk.
deleteChunksIfNotNew(oldEntry, newEntry, env) ==
    IF oldEntry = Nil THEN [calls |-> <<>>, fault |-> FALSE]
    ELSE IF newEntry = Nil
         THEN [calls |-> deleteChunks(oldEntry.Chunks, env),
               fault |-> oldEntry.Chunks # <<>>]
    ELSE LET found(oldChunk) ==
                 \E k \in 1..Len(newEntry.Chunks) :
                     oldChunk.FileId = newEntry.Chunks[k].FileId
             toDelete == SelectSeq(oldEntry.Chunks, LAMBDA c : ~found(c))
         IN [calls |-> deleteChunks(toDelete, env), fault |-> FALSE]

(***************************************************************************)
(* The Filer.  An operation is computed from the store and the cache it    *)
(* starts from; it yields the store and the cache it leaves, the value it  *)
(* returns and, in calls, the calls it made to the Entry Store, the cache  *)
(* object, the Chunk Locator and the Chunk Deleter, in order.              *)
(***************************************************************************)
OK == "nil"

FindCall(p) == [call |-> "FindEntry", path |-> p]

InsertCall(entry, ok) == [call |-> "InsertEntry", path |-> entry.FullPath, entry |-> entry, ok |-> ok]

\* The directory CreateEntry makes for a missing ancestor.
MkDirEntry(dirPath, entry) ==
    [FullPath |-> dirPath,
     Mode |-> [IsDir |-> TRUE, Perm |-> DirPerm],
     Uid |-> entry.Uid,
     Gid |-> entry.Gid,
     Chunks |-> <<>>]

\* The ancestor loop of CreateEntry, from its round i on.  w holds the store
\* and the cache, the calls made, the number nIns of InsertEntry calls made,
\* lastDirectoryEntry and the error the walk ended with.  failAt is the number
\* of the InsertEntry call of this operation that the store fails (0: none).
RECURSIVE CreateWalk(_, _, _, _, _)

\* f.cacheSetDirectory(dirPath, dirEntry, i), lastDirectoryEntry, next round.
WalkCache(w, entry, dirParts, i, failAt, dirPath, dirEntry) ==
    CreateWalk([w EXCEPT !.cache = cacheSetDirectory(@, dirPath, dirEntry, i),
                         !.calls = @ \o CacheCall(w.cache, "cache.Set", dirPath),
                         !.last = IF i = Len(dirParts) - 1 THEN dirEntry ELSE @],
               entry, dirParts, i + 1, failAt)

\* No such directory: f.store.InsertEntry(dirEntry).
WalkMkdir(w, entry, dirParts, i, failAt, dirPath, made) ==
    IF w.nIns + 1 = failAt
    THEN [w EXCEPT !.calls = Append(@, InsertCall(made, FALSE)),
                   !.nIns = @ + 1,
                   !.ret = "mkdir"]
    ELSE WalkCache([w EXCEPT !.store = StoreInsertEntry(@, made),
                             !.calls = Append(@, InsertCall(made, TRUE)),
                             !.nIns = @ + 1],
                   entry, dirParts, i, failAt, dirPath, made)

WalkEnsure(w, entry, dirParts, i, failAt, dirPath, dirEntry) ==
    IF dirEntry = Nil
    THEN WalkMkdir(w, entry, dirParts, i, failAt, dirPath, MkDirEntry(dirPath, entry))
    ELSE IF ~IsDirectory(dirEntry)
    THEN [w EXCEPT !.ret = "is a file"]
    ELSE WalkCache(w, entry, dirParts, i, failAt, dirPath, dirEntry)

\* The cache first; the store when the cache has no directory for dirPath.
WalkLookup(w, entry, dirParts, i, failAt, dirPath, cached) ==
    IF cached = Nil
    THEN WalkEnsure([w EXCEPT !.calls = @ \o CacheCall(w.cache, "cache.Get", dirPath)
                                          \o <<FindCall(dirPath)>>],
                    entry, dirParts, i, failAt, dirPath, StoreFindEntry(w.store, dirPath))
    ELSE WalkEnsure([w EXCEPT !.calls = @ \o CacheCall(w.cache, "cache.Get", dirPath)],
                    entry, dirParts, i, failAt, dirPath, cached)

WalkRound(w, entry, dirParts, i, failAt, dirPath) ==
    WalkLookup(w, entry, dirParts, i, failAt, dirPath, cacheGetDirectory(w.cache, dirPath))

CreateWalk(w, entry, dirParts, i, failAt) ==
    IF i >= Len(dirParts) THEN w
    ELSE WalkRound(w, entry, dirParts, i, failAt, DirPath(dirParts, i))

\* A create that reclaims the old chunks before it inserts the new entry.
CreateReclaimsFirst(w, entry, failAt, env, oldEntry) ==
    IF w.nIns + 1 = failAt
    THEN [w EXCEPT !.calls = @ \o deleteChunksIfNotNew(oldEntry, entry, env).calls
                                \o <<InsertCall(entry, FALSE)>>,
                   !.nIns = @ + 1,
                   !.ret = "insert entry"]
    ELSE [w EXCEPT !.store = StoreInsertEntry(@, entry),
                   !.calls = @ \o deleteChunksIfNotNew(oldEntry, entry, env).calls
                                \o <<InsertCall(entry, TRUE)>>,
                   !.nIns = @ + 1]

\* f.store.InsertEntry(entry), then f.deleteChunksIfNotNew(oldEntry, entry).
CreateInsert(w, entry, failAt, env, oldEntry) ==
    IF w.nIns + 1 = failAt
    THEN [w EXCEPT !.calls = Append(@, InsertCall(entry, FALSE)),
                   !.nIns = @ + 1,
                   !.ret = "insert entry"]
    ELSE [w EXCEPT !.store = StoreInsertEntry(@, entry),
                   !.calls = Append(@, InsertCall(entry, TRUE))
                                \o deleteChunksIfNotNew(oldEntry, entry, env).calls,
                   !.nIns = @ + 1]

CreateTarget(w, entry, failAt, env) ==
    IF w.ret # OK THEN w
    ELSE IF w.last = Nil THEN [w EXCEPT !.ret = "parent folder not found"]
    ELSE CreateInsert([w EXCEPT !.calls = Append(@, FindCall(entry.FullPath))],
                      entry, failAt, env, StoreFindEntry(w.store, entry.FullPath))

CreateEntry(st, dc, entry, failAt, env) ==
    CreateTarget(CreateWalk([store |-> st, cache |-> dc, calls |-> <<>>, nIns |-> 0,
                             last |-> Nil, ret |-> OK],
                            entry, Split(entry.FullPath), 1, failAt),
                 entry, failAt, env)

\* UpdateEntry hands the entry to the store, which replaces the entry that is
\* there and fails when there is none.
UpdateEntry(st, entry) ==
    IF entry.FullPath \in DOMAIN st
    THEN [store |-> StoreUpdateEntry(st, entry), ret |-> OK]
    ELSE [store |-> st, ret |-> "not found"]

\* return f.store.FindEntry(p): the path goes to the store as it was given.
FindEntry(st, p) == [calls |-> <<FindCall(p)>>, entry |-> StoreFindEntry(st, p)]

\* A listing that keeps the trailing slash.
ListPathKept(p) == p

\* if strings.HasSuffix(string(p), "/") && len(p) > 1 { p = p[0 : len(p)-1] }
ListPath(p) == IF HasSuffixSlash(p) /\ Len(p) > 1 THEN SubSeq(p, 1, Len(p) - 1) ELSE p

ListPassed(lp, st, startFileName, inclusive, limit) ==
    [path |-> lp, startFileName |-> startFileName, inclusive |-> inclusive,
     limit |-> limit,
     entries |-> StoreListDirectoryEntries(st, lp, startFileName, inclusive, limit)]

\* What ListDirectoryEntries passes to the store, and what it returns.
ListDirectoryEntries(st, p, startFileName, inclusive, limit) ==
    ListPassed(ListPath(p), st, startFileName, inclusive, limit)

\* The limit with which DeleteEntryMetaAndData lists the children.
DeleteListLimit == 1

\* w holds the store and the cache, the calls made and the error returned.
\* env.deleteEntryFail: the paths for which store.DeleteEntry fails.
RECURSIVE DeleteEntryMetaAndData(_, _, _, _, _)

\* return f.store.DeleteEntry(p)
DeleteFromStore(w, p, env) ==
    IF p \in env.deleteEntryFail
    THEN [w EXCEPT !.calls = Append(@, [call |-> "DeleteEntry", path |-> p, ok |-> FALSE]),
                   !.ret = "delete entry"]
    ELSE [w EXCEPT !.store = StoreDeleteEntry(@, p),
                   !.calls = Append(@, [call |-> "DeleteEntry", path |-> p, ok |-> TRUE]),
                   !.ret = OK]

\* A delete that gives up when a chunk cannot be located.
DeleteChunksOrFail(w, p, shouldDeleteChunks, env, entry) ==
    IF shouldDeleteChunks /\ FileIds(entry.Chunks) \cap env.lookupFail # {}
    THEN [w EXCEPT !.calls = @ \o deleteChunks(entry.Chunks, env), !.ret = "reclaim"]
    ELSE DeleteFromStore(
            [w EXCEPT !.calls = @ \o (IF shouldDeleteChunks
                                      THEN deleteChunks(entry.Chunks, env)
                                      ELSE <<>>)],
            p, env)

\* if shouldDeleteChunks { f.deleteChunks(entry.Chunks) }
DeleteChunksAndEntry(w, p, shouldDeleteChunks, env, entry) ==
    DeleteFromStore(
        [w EXCEPT !.calls = @ \o (IF shouldDeleteChunks
                                  THEN deleteChunks(entry.Chunks, env)
                                  ELSE <<>>)],
        p, env)

\* f.cacheDelDirectory(string(p))
DeleteCached(w, p) ==
    [w EXCEPT !.cache = cacheDelDirectory(@, p),
              !.calls = @ \o CacheCall(w.cache, "cache.Delete", p)]

\* for _, sub := range entries { f.DeleteEntryMetaAndData(sub.FullPath, ...) }
RECURSIVE DeleteSubEntries(_, _, _, _, _)
DeleteSubEntries(w, entries, isRecursive, shouldDeleteChunks, env) ==
    IF entries = <<>> THEN w
    ELSE DeleteSubEntries(
            [DeleteEntryMetaAndData(w, Head(entries).FullPath, isRecursive,
                                    shouldDeleteChunks, env) EXCEPT !.ret = OK],
            Tail(entries), isRecursive, shouldDeleteChunks, env)

\* A delete that does not look whether the directory is empty.
DeleteDirectoryUnchecked(w, p, isRecursive, shouldDeleteChunks, env, entry, entries) ==
    DeleteChunksAndEntry(
        DeleteCached(IF isRecursive
                     THEN DeleteSubEntries(w, entries, isRecursive, shouldDeleteChunks, env)
                     ELSE w, p),
        p, shouldDeleteChunks, env, entry)

DeleteDirectory(w, p, isRecursive, shouldDeleteChunks, env, entry, entries) ==
    IF isRecursive
    THEN DeleteChunksAndEntry(
            DeleteCached(DeleteSubEntries(w, entries, isRecursive, shouldDeleteChunks, env), p),
            p, shouldDeleteChunks, env, entry)
    ELSE IF Len(entries) > 0
    THEN [w EXCEPT !.ret = "not empty"]
    ELSE DeleteChunksAndEntry(DeleteCached(w, p), p, shouldDeleteChunks, env, entry)

DeleteFound(w, p, isRecursive, shouldDeleteChunks, env, entry) ==
    IF entry = Nil THEN [w EXCEPT !.ret = "not found"]
    ELSE IF IsDirectory(entry)
    THEN DeleteDirectory(
            [w EXCEPT !.calls = Append(@, [call |-> "ListDirectoryEntries",
                                           path |-> ListPath(p)])],
            p, isRecursive, shouldDeleteChunks, env, entry,
            ListDirectoryEntries(w.store, p, <<>>, FALSE, DeleteListLimit).entries)
    ELSE DeleteChunksAndEntry(w, p, shouldDeleteChunks, env, entry)

DeleteEntryMetaAndData(w, p, isRecursive, shouldDeleteChunks, env) ==
    DeleteFound([w EXCEPT !.calls = Append(@, FindCall(p))],
                p, isRecursive, shouldDeleteChunks, env, StoreFindEntry(w.store, p))

\* A disable that leaves the cache in place.
DisableNothing(dc) == dc

\* f.directoryCache = nil
DisableDirectoryCache(dc) == NilCache

(***************************************************************************)
(* The inputs of the operations.                                           *)
(***************************************************************************)
pRoot == <<"/">>
pA == <<"/", "a">>
pAA == <<"/", "a", "/", "a">>
pAB == <<"/", "a", "/", "b">>
pASlash == <<"/", "a", "/">>

pAASlash == <<"/", "a", "/", "a", "/">>

Owner1 == [Uid |-> 1, Gid |-> 2]
Owner2 == [Uid |-> 2, Gid |-> 1]

Chunks(ids) == [k \in 1..Len(ids) |-> [FileId |-> ids[k]]]

DirEntry(p, o) ==
    [FullPath |-> p, Mode |-> [IsDir |-> TRUE, Perm |-> DirPerm],
     Uid |-> o.Uid, Gid |-> o.Gid, Chunks |-> <<>>]

FileEntry(p, o, ids) ==
    [FullPath |-> p, Mode |-> [IsDir |-> FALSE, Perm |-> 420],
     Uid |-> o.Uid, Gid |-> o.Gid, Chunks |-> Chunks(ids)]

InputPaths == {pA, pAA, pAB}

\* The entries CreateEntry is called with: directories, and files of two
\* owners whose chunk lists overlap, differ in order and differ in length.
CreateInputs ==
    {DirEntry(pA, Owner1), DirEntry(pAA, Owner1)}
        \cup {FileEntry(p, Owner1, <<1, 2>>) : p \in InputPaths}
        \cup {FileEntry(p, Owner2, <<2, 1>>) : p \in InputPaths}
        \cup {FileEntry(p, Owner2, <<2>>) : p \in InputPaths}

UpdateInputs == {FileEntry(pA, Owner2, <<2>>), DirEntry(pA, Owner1)}

DeleteInputs == InputPaths \cup {pRoot}

ListInputs == {pA, pASlash}

NoFailure == [lookupFail |-> {}, deleteFail |-> {}, deleteEntryFail |-> {}]

\* What an operation did, read from its calls.
CallsOf(calls, name) == SelectSeq(calls, LAMBDA c : c.call = name)

PathsOf(calls, name) ==
    LET cs == CallsOf(calls, name) IN [k \in 1..Len(cs) |-> cs[k].path]

Range(f) == {f[k] : k \in DOMAIN f}

Reclaimed(calls) == {c.fileId : c \in Range(CallsOf(calls, "LookupFileId"))}

(***************************************************************************)
(* The state machine: a Filer with a store, used by one caller at a time.  *)
(***************************************************************************)
Init ==
    /\ store = EmptyStore
    /\ directoryCache = NewCache
    /\ disabled = FALSE
    /\ lastOp = [op |-> "NewFiler"]
    /\ nOps = 0
    /\ procs = <<>>

DoDisableDirectoryCache ==
    /\ nOps < MaxOps
    /\ ~disabled
    /\ directoryCache' = DisableDirectoryCache(directoryCache)
    /\ disabled' = TRUE
    /\ lastOp' = [op |-> "DisableDirectoryCache"]
    /\ nOps' = nOps + 1
    /\ UNCHANGED <<store, procs>>

CreateDone(entry, r) ==
    /\ store' = r.store
    /\ directoryCache' = r.cache
    /\ lastOp' = [op |-> "CreateEntry", entry |-> entry, ret |-> r.ret, calls |-> r.calls]

\* The store may fail one InsertEntry call; the Chunk Locator and the Chunk
\* Deleter may fail for any of the chunks handed to them.
CreateUnder(entry, inserts, reclaimed) ==
    \E failAt \in 0..inserts :
    \E lf \in SUBSET (IF failAt = 0 THEN reclaimed ELSE {}) :
    \E df \in SUBSET (IF failAt = 0 THEN reclaimed \ lf ELSE {}) :
        CreateDone(entry, CreateEntry(store, directoryCache, entry, failAt,
                                      [lookupFail |-> lf, deleteFail |-> df,
                                       deleteEntryFail |-> {}]))

CreateChoices(entry, plainCalls) ==
    CreateUnder(entry, Len(CallsOf(plainCalls, "InsertEntry")), Reclaimed(plainCalls))

DoCreateEntry ==
    /\ nOps < MaxOps
    /\ \E entry \in CreateInputs :
         CreateChoices(entry, CreateEntry(store, directoryCache, entry, 0, NoFailure).calls)
    /\ nOps' = nOps + 1
    /\ UNCHANGED <<disabled, procs>>

DoUpdateEntry ==
    /\ nOps < MaxOps
    /\ \E entry \in UpdateInputs :
         /\ store' = UpdateEntry(store, entry).store
         /\ lastOp' = [op |-> "UpdateEntry", entry |-> entry,
                       ret |-> UpdateEntry(store, entry).ret]
    /\ nOps' = nOps + 1
    /\ UNCHANGED <<directoryCache, disabled, procs>>

DeleteStart == [store |-> store, cache |-> directoryCache, calls |-> <<>>, ret |-> OK]

DeleteDone(p, isRecursive, shouldDeleteChunks, r) ==
    /\ store' = r.store
    /\ directoryCache' = r.cache
    /\ lastOp' = [op |-> "DeleteEntryMetaAndData", p |-> p, isRecursive |-> isRecursive,
                  shouldDeleteChunks |-> shouldDeleteChunks, ret |-> r.ret,
                  calls |-> r.calls]

\* The store may fail the DeleteEntry call of one of the paths.
DeleteUnder(p, isRecursive, shouldDeleteChunks, visited, reclaimed) ==
    \E ef \in {{}} \cup {{q} : q \in visited} :
    \E lf \in SUBSET reclaimed :
    \E df \in SUBSET (reclaimed \ lf) :
        DeleteDone(p, isRecursive, shouldDeleteChunks,
                   DeleteEntryMetaAndData(DeleteStart, p, isRecursive, shouldDeleteChunks,
                                          [lookupFail |-> lf, deleteFail |-> df,
                                           deleteEntryFail |-> ef]))

DeleteChoices(p, isRecursive, shouldDeleteChunks, plainCalls) ==
    DeleteUnder(p, isRecursive, shouldDeleteChunks,
                Range(PathsOf(plainCalls, "DeleteEntry")), Reclaimed(plainCalls))

DoDeleteEntryMetaAndData ==
    /\ nOps < MaxOps
    /\ \E p \in DeleteInputs, isRecursive \in BOOLEAN, shouldDeleteChunks \in BOOLEAN :
         DeleteChoices(p, isRecursive, shouldDeleteChunks,
                       DeleteEntryMetaAndData(DeleteStart, p, isRecursive,
                                              shouldDeleteChunks, NoFailure).calls)
    /\ nOps' = nOps + 1
    /\ UNCHANGED <<disabled, procs>>

ListDone(p, limit, r) ==
    lastOp' = [op |-> "ListDirectoryEntries", p |-> p, startFileName |-> <<>>,
               inclusive |-> FALSE, limit |-> limit, passed |-> r.path,
               entries |-> r.entries]

DoListDirectoryEntries ==
    /\ nOps < MaxOps
    /\ \E p \in ListInputs, limit \in {1, 2} :
         ListDone(p, limit, ListDirectoryEntries(store, p, <<>>, FALSE, limit))
    /\ nOps' = nOps + 1
    /\ UNCHANGED <<store, directoryCache, disabled, procs>>

\* The cache drops an item: its minutes have passed, or it is pruned.
CacheExpire ==
    /\ nOps < MaxOps
    /\ ~directoryCache.nil
    /\ \E dirpath \in DOMAIN directoryCache.items :
         /\ directoryCache' = cacheDelDirectory(directoryCache, dirpath)
         /\ lastOp' = [op |-> "CacheExpire", path |-> dirpath]
    /\ nOps' = nOps + 1
    /\ UNCHANGED <<store, disabled, procs>>

Next ==
    \/ DoCreateEntry
    \/ DoUpdateEntry
    \/ DoDeleteEntryMetaAndData
    \/ DoListDirectoryEntries
    \/ DoDisableDirectoryCache
    \/ CacheExpire

Spec == Init /\ [][Next]_vars

(***************************************************************************)
(* The TTL policy on its own: cacheSetDirectory called with any level.     *)
(***************************************************************************)
DoCacheSetDirectory ==
    /\ \E level \in 1..MaxLevel, dirpath \in {pRoot, pA} :
         /\ directoryCache' = cacheSetDirectory(directoryCache, dirpath,
                                                DirEntry(dirpath, Owner1), level)
         /\ lastOp' = [op |-> "cacheSetDirectory", dirpath |-> dirpath, level |-> level]
    /\ UNCHANGED <<store, disabled, nOps, procs>>

NextTTL == DoCacheSetDirectory

SpecTTL == Init /\ [][NextTTL]_vars

(***************************************************************************)
(* The operations called with paths that end with a slash.                 *)
(***************************************************************************)
SlashPaths == {pA, pASlash, pAA, pAASlash}

SlashCreateInputs ==
    {FileEntry(p, Owner1, <<1>>) : p \in SlashPaths} \cup {DirEntry(pASlash, Owner2)}

DoCreateEntryAt ==
    /\ nOps < MaxOps
    /\ \E entry \in SlashCreateInputs :
         CreateDone(entry, CreateEntry(store, directoryCache, entry, 0, NoFailure))
    /\ nOps' = nOps + 1
    /\ UNCHANGED <<disabled, procs>>

DoFindEntry ==
    /\ nOps < MaxOps
    /\ \E p \in SlashPaths \cup {pRoot} :
         lastOp' = [op |-> "FindEntry", p |-> p, calls |-> FindEntry(store, p).calls,
                    entry |-> FindEntry(store, p).entry]
    /\ nOps' = nOps + 1
    /\ UNCHANGED <<store, directoryCache, disabled, procs>>

DoDeleteEntryMetaAndDataAt ==
    /\ nOps < MaxOps
    /\ \E p \in SlashPaths, isRecursive \in BOOLEAN :
         DeleteDone(p, isRecursive, TRUE,
                    DeleteEntryMetaAndData(DeleteStart, p, isRecursive, TRUE, NoFailure))
    /\ nOps' = nOps + 1
    /\ UNCHANGED <<disabled, procs>>

DoListDirectoryEntriesAt ==
    /\ nOps < MaxOps
    /\ \E p \in SlashPaths \cup {pRoot} :
         ListDone(p, 2, ListDirectoryEntries(store, p, <<>>, FALSE, 2))
    /\ nOps' = nOps + 1
    /\ UNCHANGED <<store, directoryCache, disabled, procs>>

NextPaths ==
    \/ DoCreateEntryAt
    \/ DoFindEntry
    \/ DoDeleteEntryMetaAndDataAt
    \/ DoListDirectoryEntriesAt

SpecPaths == Init /\ [][NextPaths]_vars

(***************************************************************************)
(* CreateEntry and DeleteEntryMetaAndData alone, from an empty store, with *)
(* a store, a Chunk Locator and a Chunk Deleter that never fail.           *)
(***************************************************************************)
DoCreateEntryPlain ==
    /\ nOps < MaxOps
    /\ \E entry \in CreateInputs :
         CreateDone(entry, CreateEntry(store, directoryCache, entry, 0, NoFailure))
    /\ nOps' = nOps + 1
    /\ UNCHANGED <<disabled, procs>>

DoDeleteEntryMetaAndDataPlain ==
    /\ nOps < MaxOps
    /\ \E p \in DeleteInputs, isRecursive \in BOOLEAN, shouldDeleteChunks \in BOOLEAN :
         DeleteDone(p, isRecursive, shouldDeleteChunks,
                    DeleteEntryMetaAndData(DeleteStart, p, isRecursive, shouldDeleteChunks,
                                           NoFailure))
    /\ nOps' = nOps + 1
    /\ UNCHANGED <<disabled, procs>>

NextTree == DoCreateEntryPlain \/ DoDeleteEntryMetaAndDataPlain

SpecTree == Init /\ [][NextTree]_vars

(***************************************************************************)
(* Chunk reclamation on its own: deleteChunks and deleteChunksIfNotNew     *)
(* called with any entries, under any failures of the Chunk Locator and    *)
(* the Chunk Deleter.                                                      *)
(***************************************************************************)
ChunkLists == {<<>>, <<1>>, <<1, 2>>, <<2, 3, 1>>}

ReclaimEntries == {FileEntry(pA, Owner1, ids) : ids \in ChunkLists}

ReclaimEnvs ==
    {[lookupFail |-> lf, deleteFail |-> df, deleteEntryFail |-> {}] :
        lf \in SUBSET {1, 2}, df \in SUBSET {2, 3}}

DoDeleteChunks ==
    /\ \E ids \in ChunkLists, env \in ReclaimEnvs :
         lastOp' = [op |-> "deleteChunks", chunks |-> Chunks(ids), env |-> env,
                    calls |-> deleteChunks(Chunks(ids), env)]
    /\ UNCHANGED <<store, directoryCache, disabled, nOps, procs>>

DoDeleteChunksIfNotNew ==
    /\ \E oldEntry \in ReclaimEntries \cup {Nil}, newEntry \in ReclaimEntries \cup {Nil},
          env \in ReclaimEnvs :
         lastOp' = [op |-> "deleteChunksIfNotNew", oldEntry |-> oldEntry,
                    newEntry |-> newEntry, env |-> env,
                    calls |-> deleteChunksIfNotNew(oldEntry, newEntry, env).calls,
                    fault |-> deleteChunksIfNotNew(oldEntry, newEntry, env).fault]
    /\ UNCHANGED <<store, directoryCache, disabled, nOps, procs>>

NextReclaim == DoDeleteChunks \/ DoDeleteChunksIfNotNew

SpecReclaim == Init /\ [][NextReclaim]_vars

(***************************************************************************)
(* Two callers at once.  Each call advances by one call to the Entry       *)
(* Store or to the Directory Cache at a time; what a call computes between *)
(* two such calls is part of the step that follows.  The cache object is   *)
(* safe for concurrent use, so each of its calls is one step.  The store   *)
(* inserts a directory only if the path is free and reports success when a *)
(* directory is there already.                                             *)
(***************************************************************************)
Done(pr, err) == [pr EXCEPT !.pc = "done", !.ret = err]

\* for i := 1; i < len(dirParts); i++, then the parent check.
WalkNext(pr) ==
    IF pr.i + 1 < Len(pr.dirParts)
    THEN [pr EXCEPT !.i = @ + 1, !.pc = "cacheGet"]
    ELSE IF pr.last = Nil THEN Done(pr, "parent folder not found")
    ELSE [pr EXCEPT !.pc = "findOld"]

\* dirEntry found in the store or in the cache, or not.
WalkFound(pr, dirEntry) ==
    IF dirEntry = Nil THEN [pr EXCEPT !.pc = "mkdir"]
    ELSE IF ~IsDirectory(dirEntry) THEN Done(pr, "is a file")
    ELSE [pr EXCEPT !.dirEntry = dirEntry, !.pc = "cacheSet"]

\* dirEntry := f.cacheGetDirectory(dirPath)
WalkCached(pr, cached) ==
    IF cached = Nil THEN [pr EXCEPT !.pc = "findDir"] ELSE WalkFound(pr, cached)

\* store.InsertEntry(dirEntry) of a store that inserts a directory if the
\* path is free: an entry that is there stays.
StoreInsertIfAbsent(st, entry) ==
    IF entry.FullPath \in DOMAIN st THEN st ELSE StoreInsertEntry(st, entry)

\* A mkdir that fails when the other caller has made the directory.
WalkMadeOnlyIfAbsent(pr, st, made) ==
    IF made.FullPath \in DOMAIN st
    THEN Done([pr EXCEPT !.mkdirs = @ \cup {made.FullPath}], "mkdir")
    ELSE [pr EXCEPT !.dirEntry = made,
                    !.mkdirs = @ \cup {made.FullPath},
                    !.made = @ \cup {made.FullPath},
                    !.pc = "cacheSet"]

\* mkdirErr: a file at the path.
WalkMade(pr, st, made) ==
    IF made.FullPath \in DOMAIN st /\ ~IsDirectory(st[made.FullPath])
    THEN Done([pr EXCEPT !.mkdirs = @ \cup {made.FullPath}], "mkdir")
    ELSE [pr EXCEPT !.dirEntry = made,
                    !.mkdirs = @ \cup {made.FullPath},
                    !.made = @ \cup ({made.FullPath} \ DOMAIN st),
                    !.pc = "cacheSet"]

\* lastDirectoryEntry = dirEntry in the last round, then the next round.
WalkCachedSet(pr) ==
    WalkNext([pr EXCEPT !.last = IF pr.i = Len(pr.dirParts) - 1 THEN pr.dirEntry ELSE @])

RaceCacheGet(self) ==
    /\ procs[self].op = "CreateEntry" /\ procs[self].pc = "cacheGet"
    /\ procs' = [procs EXCEPT ![self] =
                    WalkCached(@, cacheGetDirectory(directoryCache, DirPath(@.dirParts, @.i)))]
    /\ UNCHANGED <<store, directoryCache, disabled, lastOp, nOps>>

RaceFindDir(self) ==
    /\ procs[self].op = "CreateEntry" /\ procs[self].pc = "findDir"
    /\ procs' = [procs EXCEPT ![self] =
                    WalkFound(@, StoreFindEntry(store, DirPath(@.dirParts, @.i)))]
    /\ UNCHANGED <<store, directoryCache, disabled, lastOp, nOps>>

RaceMkdir(self) ==
    /\ procs[self].op = "CreateEntry" /\ procs[self].pc = "mkdir"
    /\ store' = StoreInsertIfAbsent(store,
                    MkDirEntry(DirPath(procs[self].dirParts, procs[self].i), procs[self].entry))
    /\ procs' = [procs EXCEPT ![self] =
                    WalkMade(@, store, MkDirEntry(DirPath(@.dirParts, @.i), @.entry))]
    /\ UNCHANGED <<directoryCache, disabled, lastOp, nOps>>

RaceCacheSet(self) ==
    /\ procs[self].op = "CreateEntry" /\ procs[self].pc = "cacheSet"
    /\ directoryCache' = cacheSetDirectory(directoryCache,
                            DirPath(procs[self].dirParts, procs[self].i),
                            procs[self].dirEntry, procs[self].i)
    /\ procs' = [procs EXCEPT ![self] = WalkCachedSet(@)]
    /\ UNCHANGED <<store, disabled, lastOp, nOps>>

\* oldEntry, _ := f.FindEntry(entry.FullPath)
RaceFindOld(self) ==
    /\ procs[self].op = "CreateEntry" /\ procs[self].pc = "findOld"
    /\ procs' = [procs EXCEPT ![self] =
                    [@ EXCEPT !.oldEntry = StoreFindEntry(store, procs[self].entry.FullPath),
                              !.pc = "insert"]]
    /\ UNCHANGED <<store, directoryCache, disabled, lastOp, nOps>>

\* f.store.InsertEntry(entry)
RaceInsert(self) ==
    /\ procs[self].op = "CreateEntry" /\ procs[self].pc = "insert"
    /\ store' = StoreInsertEntry(store, procs[self].entry)
    /\ procs' = [procs EXCEPT ![self] = [@ EXCEPT !.pc = "reclaim"]]
    /\ UNCHANGED <<directoryCache, disabled, lastOp, nOps>>

\* f.deleteChunksIfNotNew(oldEntry, entry); return nil
RaceReclaim(self) ==
    /\ procs[self].op = "CreateEntry" /\ procs[self].pc = "reclaim"
    /\ procs' = [procs EXCEPT ![self] =
                    Done([@ EXCEPT !.reclaimed =
                            Reclaimed(deleteChunksIfNotNew(procs[self].oldEntry,
                                                           procs[self].entry, NoFailure).calls)],
                         OK)]
    /\ UNCHANGED <<store, directoryCache, disabled, lastOp, nOps>>

\* A DeleteEntryMetaAndData in progress holds a stack of frames, one for the
\* call and one for every recursive call it is in: the path, the place in
\* the code, the entry found and the listed children still to delete.
Frame(p) == [p |-> p, pc |-> "find", entry |-> Nil, entries |-> <<>>]

Top(pr) == pr.stack[Len(pr.stack)]

SetTop(pr, frame) == [pr EXCEPT !.stack[Len(pr.stack)] = frame]

\* A return: the error of a recursive call is dropped by its caller.
Return(pr, err) ==
    IF Len(pr.stack) = 1
    THEN Done([pr EXCEPT !.stack = <<>>], err)
    ELSE [pr EXCEPT !.stack = SubSeq(@, 1, Len(@) - 1)]

\* entry, err := f.FindEntry(p)
DeleteFoundEntry(pr, entry) ==
    IF entry = Nil THEN Return(pr, "not found")
    ELSE SetTop(pr, [Top(pr) EXCEPT !.entry = entry,
                                    !.pc = IF IsDirectory(entry) THEN "list" ELSE "delete"])

\* entries, err := f.ListDirectoryEntries(p, "", false, 1)
DeleteListed(pr, entries) ==
    IF pr.isRecursive THEN SetTop(pr, [Top(pr) EXCEPT !.entries = entries, !.pc = "sub"])
    ELSE IF Len(entries) > 0 THEN Return(pr, "not empty")
    ELSE SetTop(pr, [Top(pr) EXCEPT !.pc = "cacheDel"])

\* for _, sub := range entries { f.DeleteEntryMetaAndData(sub.FullPath, ...) }
DeleteNextSub(pr) ==
    IF Top(pr).entries = <<>>
    THEN SetTop(pr, [Top(pr) EXCEPT !.pc = "cacheDel"])
    ELSE [pr EXCEPT !.stack = Append(SubSeq(@, 1, Len(@) - 1),
                                     [Top(pr) EXCEPT !.entries = Tail(@)])
                                \o <<Frame(Head(Top(pr).entries).FullPath)>>]

\* if shouldDeleteChunks { f.deleteChunks(entry.Chunks) }; return f.store.DeleteEntry(p)
DeleteDeleted(pr) ==
    Return([pr EXCEPT !.reclaimed =
                @ \cup (IF pr.shouldDeleteChunks
                        THEN Reclaimed(deleteChunks(Top(pr).entry.Chunks, NoFailure))
                        ELSE {})],
           OK)

Deleting(self, pc) ==
    /\ procs[self].op = "DeleteEntryMetaAndData"
    /\ procs[self].pc = "call"
    /\ Top(procs[self]).pc = pc

RaceDeleteFind(self) ==
    /\ Deleting(self, "find")
    /\ procs' = [procs EXCEPT ![self] =
                    DeleteFoundEntry(@, FindEntry(store, Top(@).p).entry)]
    /\ UNCHANGED <<store, directoryCache, disabled, lastOp, nOps>>

RaceDeleteList(self) ==
    /\ Deleting(self, "list")
    /\ procs' = [procs EXCEPT ![self] =
                    DeleteListed(@, ListDirectoryEntries(store, Top(@).p, <<>>, FALSE,
                                                         DeleteListLimit).entries)]
    /\ UNCHANGED <<store, directoryCache, disabled, lastOp, nOps>>

RaceDeleteSub(self) ==
    /\ Deleting(self, "sub")
    /\ procs' = [procs EXCEPT ![self] = DeleteNextSub(@)]
    /\ UNCHANGED <<store, directoryCache, disabled, lastOp, nOps>>

RaceDeleteCacheDel(self) ==
    /\ Deleting(self, "cacheDel")
    /\ directoryCache' = cacheDelDirectory(directoryCache, Top(procs[self]).p)
    /\ procs' = [procs EXCEPT ![self] = SetTop(@, [Top(@) EXCEPT !.pc = "delete"])]
    /\ UNCHANGED <<store, disabled, lastOp, nOps>>

RaceDeleteEntry(self) ==
    /\ Deleting(self, "delete")
    /\ store' = StoreDeleteEntry(store, Top(procs[self]).p)
    /\ procs' = [procs EXCEPT ![self] = DeleteDeleted(@)]
    /\ UNCHANGED <<directoryCache, disabled, lastOp, nOps>>

Callers == 1..2

\* The calls of the two callers.
CreateCall(entry) ==
    [op |-> "CreateEntry", entry |-> entry, dirParts |-> Split(entry.FullPath), i |-> 1,
     dirEntry |-> Nil, last |-> Nil, oldEntry |-> Nil, pc |-> "cacheGet", ret |-> OK,
     reclaimed |-> {}, mkdirs |-> {}, made |-> {}]

DeleteCall(p, isRecursive, shouldDeleteChunks) ==
    [op |-> "DeleteEntryMetaAndData", p |-> p, isRecursive |-> isRecursive,
     shouldDeleteChunks |-> shouldDeleteChunks, stack |-> <<Frame(p)>>, pc |-> "call",
     ret |-> OK, reclaimed |-> {}]

RaceCalls ==
    {CreateCall(FileEntry(pAA, Owner1, <<1, 2>>)),
     CreateCall(FileEntry(pAB, Owner2, <<2>>)),
     CreateCall(FileEntry(pA, Owner2, <<2>>)),
     CreateCall(FileEntry(pA, Owner2, <<2, 1>>))}
        \cup {DeleteCall(pA, isRecursive, TRUE) : isRecursive \in BOOLEAN}

\* What the callers find: nothing at all, the file "/a", or the empty
\* directory "/a", each as one CreateEntry leaves it.
RaceStarts ==
    {[store |-> EmptyStore, cache |-> NewCache]}
        \cup {[store |-> CreateEntry(EmptyStore, NewCache, e, 0, NoFailure).store,
               cache |-> CreateEntry(EmptyStore, NewCache, e, 0, NoFailure).cache] :
                 e \in {FileEntry(pA, Owner1, <<1, 2>>), DirEntry(pA, Owner1)}}

InitRace ==
    /\ \E start \in RaceStarts :
         /\ store = start.store
         /\ directoryCache = start.cache
         /\ lastOp = [op |-> "Start", store |-> start.store]
    /\ disabled = FALSE
    /\ nOps = 0
    /\ procs \in [Callers -> RaceCalls]

NextRace ==
    \E self \in Callers :
        \/ RaceCacheGet(self)
        \/ RaceFindDir(self)
        \/ RaceMkdir(self)
        \/ RaceCacheSet(self)
        \/ RaceFindOld(self)
        \/ RaceInsert(self)
        \/ RaceReclaim(self)
        \/ RaceDeleteFind(self)
        \/ RaceDeleteList(self)
        \/ RaceDeleteSub(self)
        \/ RaceDeleteCacheDel(self)
        \/ RaceDeleteEntry(self)

SpecRace == InitRace /\ [][NextRace]_vars

(***************************************************************************)
(* The vocabulary of the properties, defined on the paths themselves.      *)
(***************************************************************************)
\* The paths of the directories above p: the root, and p cut before a slash.
ProperAncestors(p) ==
    (IF p = pRoot THEN {} ELSE {pRoot})
        \cup {SubSeq(p, 1, j - 1) : j \in {i \in 2..Len(p) : p[i] = Slash}}

\* What every path below the directory p starts with.
DirPrefix(p) == IF p = pRoot THEN p ELSE Append(p, Slash)

\* k lies below the directory p.
Under(k, p) == Len(k) > Len(DirPrefix(p)) /\ SubSeq(k, 1, Len(DirPrefix(p))) = DirPrefix(p)

\* k is a child of the directory p: below p, with no further slash.
ChildOf(k, p) == Under(k, p) /\ \A i \in (Len(DirPrefix(p)) + 1)..Len(k) : k[i] # Slash

\* The chunks for which the operation called the Chunk Locator or the Chunk Deleter.
Attempted(calls) ==
    {c.fileId : c \in Range(SelectSeq(calls,
        LAMBDA c : c.call \in {"LookupFileId", "DeleteFromVolumeServer"}))}

StoreCallsOk(calls) ==
    \A k \in 1..Len(calls) :
        calls[k].call \in {"InsertEntry", "DeleteEntry"} => calls[k].ok

(***************************************************************************)
(* CreateEntry.                                                            *)
(***************************************************************************)
InsertedPaths(calls) == PathsOf(calls, "InsertEntry")

\* C1: a successful CreateEntry(e) leaves a directory at every proper
\* ancestor of e.FullPath and e at e.FullPath; every ancestor that was missing
\* before the call is inserted as a directory with e's uid and gid; the
\* inserts go from the shallowest ancestor down and end with the target.
C1_Step ==
    (lastOp'.op = "CreateEntry" /\ lastOp'.ret = OK) =>
        LET e == lastOp'.entry
            ins == CallsOf(lastOp'.calls, "InsertEntry")
        IN /\ \A anc \in ProperAncestors(e.FullPath) :
                anc \in DOMAIN store' /\ IsDirectory(store'[anc])
           /\ e.FullPath \in DOMAIN store' /\ store'[e.FullPath] = e
           /\ \A anc \in ProperAncestors(e.FullPath) \ DOMAIN store :
                \E k \in 1..Len(ins) :
                    /\ ins[k].path = anc
                    /\ ins[k].entry.Mode.IsDir
                    /\ ins[k].entry.Uid = e.Uid
                    /\ ins[k].entry.Gid = e.Gid
           /\ Len(ins) >= 1 /\ ins[Len(ins)].path = e.FullPath
           /\ \A j, k \in 1..(Len(ins) - 1) : j < k => Len(ins[j].path) < Len(ins[k].path)

C1_CreateMaterializesAncestors == [][C1_Step]_vars

\* C2: with the cache enabled, when the store holds a non-directory entry at
\* a proper ancestor of e.FullPath, CreateEntry(e) returns "X is a file" and
\* does not insert e (in a call in which no store operation fails).
C2_Step ==
    (/\ lastOp'.op = "CreateEntry"
     /\ ~directoryCache.nil
     /\ StoreCallsOk(lastOp'.calls)
     /\ \E anc \in ProperAncestors(lastOp'.entry.FullPath) :
            anc \in DOMAIN store /\ ~IsDirectory(store[anc]))
    => /\ lastOp'.ret = "is a file"
       /\ lastOp'.entry.FullPath \notin Range(InsertedPaths(lastOp'.calls))

C2_FileAncestorIsConflict == [][C2_Step]_vars

\* C3: when CreateEntry(new) succeeds, the chunks whose reclamation is
\* attempted are exactly those of the prior entry at the path that new does
\* not hold: none when there was no prior entry, and never a chunk of new.
C3_Step ==
    (lastOp'.op = "CreateEntry" /\ lastOp'.ret = OK) =>
        LET new == lastOp'.entry
            prior == IF new.FullPath \in DOMAIN store
                     THEN FileIds(store[new.FullPath].Chunks)
                     ELSE {}
        IN /\ Attempted(lastOp'.calls) = prior \ FileIds(new.Chunks)
           /\ Attempted(lastOp'.calls) \cap FileIds(new.Chunks) = {}
           /\ new.FullPath \notin DOMAIN store => Attempted(lastOp'.calls) = {}

C3_ReclaimsOldMinusNew == [][C3_Step]_vars

\* A file with chunks 1, 2 was re-created with chunk 2 alone: 1 was reclaimed.
C3_Witness ==
    /\ lastOp.op = "CreateEntry"
    /\ lastOp.ret = OK
    /\ FileIds(lastOp.entry.Chunks) = {2}
    /\ Attempted(lastOp.calls) = {1}

(***************************************************************************)
(* DeleteEntryMetaAndData.                                                 *)
(***************************************************************************)
DeletesDirectory(p) == p \in DOMAIN store /\ IsDirectory(store[p])

\* C4: a non-recursive delete of a directory that has a child returns
\* "folder is not empty" and changes nothing: the store and the cache are as
\* they were, no chunk is reclaimed and the store is asked to delete nothing.
C4_Step ==
    (/\ lastOp'.op = "DeleteEntryMetaAndData"
     /\ ~lastOp'.isRecursive
     /\ DeletesDirectory(lastOp'.p)
     /\ \E k \in DOMAIN store : ChildOf(k, lastOp'.p))
    => /\ lastOp'.ret = "not empty"
       /\ store' = store
       /\ directoryCache' = directoryCache
       /\ Attempted(lastOp'.calls) = {}
       /\ CallsOf(lastOp'.calls, "DeleteEntry") = <<>>
       /\ CallsOf(lastOp'.calls, "cache.Delete") = <<>>

C4_NonRecursiveKeepsNonEmpty == [][C4_Step]_vars

\* A non-recursive delete of /a, which is cached and has two children, failed.
C4_Witness ==
    /\ lastOp.op = "DeleteEntryMetaAndData"
    /\ lastOp.p = pA
    /\ ~lastOp.isRecursive
    /\ lastOp.shouldDeleteChunks
    /\ lastOp.ret = "not empty"
    /\ {pAA, pAB} \subseteq DOMAIN store
    /\ ~directoryCache.nil /\ pA \in DOMAIN directoryCache.items

\* Every entry below p lies in directories: the tree below p is well formed.
TreeBelow(p) ==
    \A k \in DOMAIN store :
        Under(k, p) => \A anc \in ProperAncestors(k) :
                           anc \in DOMAIN store /\ IsDirectory(store[anc])

\* C5: after a recursive delete of a directory p returns, no entry at p or
\* below p is left in the store and, with shouldDeleteChunks, every chunk of
\* every entry below p has been reclaimed (stated for a well-formed tree
\* below p and a call in which no store operation fails).
C5_Step ==
    (/\ lastOp'.op = "DeleteEntryMetaAndData"
     /\ lastOp'.isRecursive
     /\ DeletesDirectory(lastOp'.p)
     /\ TreeBelow(lastOp'.p)
     /\ StoreCallsOk(lastOp'.calls))
    => /\ \A k \in DOMAIN store' : k # lastOp'.p /\ ~Under(k, lastOp'.p)
       /\ lastOp'.shouldDeleteChunks =>
            \A k \in DOMAIN store :
                Under(k, lastOp'.p) => FileIds(store[k].Chunks) \subseteq Attempted(lastOp'.calls)

C5_RecursiveRemovesAllDescendants == [][C5_Step]_vars

\* The operation was a successful delete of a directory: it listed its path.
DeletedDirectory(op) ==
    /\ op.op = "DeleteEntryMetaAndData"
    /\ op.ret = OK
    /\ Len(op.calls) >= 2
    /\ op.calls[2].call = "ListDirectoryEntries"

\* C6: after a successful delete of a directory p the cache holds no entry
\* for p nor for any directory the call removed from the store, and a
\* CreateEntry that follows and whose walk comes to p looks p up in the store
\* and creates it again.
C6_Step ==
    /\ (/\ lastOp'.op = "DeleteEntryMetaAndData"
        /\ lastOp'.ret = OK
        /\ DeletesDirectory(lastOp'.p))
       => /\ lastOp'.p \notin DOMAIN directoryCache'.items
          /\ \A q \in DOMAIN store \ DOMAIN store' :
                IsDirectory(store[q]) => q \notin DOMAIN directoryCache'.items
    /\ (/\ DeletedDirectory(lastOp)
        /\ lastOp'.op = "CreateEntry"
        /\ lastOp.p \in Range(PathsOf(lastOp'.calls, "cache.Get")))
       => /\ lastOp.p \in Range(PathsOf(lastOp'.calls, "FindEntry"))
          /\ lastOp.p \in Range(InsertedPaths(lastOp'.calls))

C6_DeleteInvalidatesCache == [][C6_Step]_vars

\* A recursive delete removed a directory and a directory below it, both of
\* which the cache held.
C6_Witness ==
    /\ lastOp.op = "DeleteEntryMetaAndData"
    /\ lastOp.ret = OK
    /\ lastOp.isRecursive
    /\ ~directoryCache.nil
    /\ Len(CallsOf(lastOp.calls, "cache.Delete")) >= 2
    /\ DOMAIN store = {}

(***************************************************************************)
(* ListDirectoryEntries.                                                   *)
(***************************************************************************)
pB == <<"/", "b">>

\* Paths without a trailing slash, the root apart: a directory with
\* children, a child of it, a path nothing was created at.
PlainPaths == {pA, pAA, pB}

StartNames == {<<>>, <<"a">>}

Limits == {1, 2}

\* C7: for a path p that is not the root and has no trailing slash, and for
\* all startFileName, inclusive and limit, ListDirectoryEntries(p + "/")
\* passes to the store what ListDirectoryEntries(p) passes, p itself, and
\* returns the same entries; the root is passed as it is.
C7_TrailingSlashIsStripped ==
    /\ \A s \in StartNames, incl \in BOOLEAN, limit \in Limits :
         /\ \A p \in PlainPaths :
              LET plain == ListDirectoryEntries(store, p, s, incl, limit)
              IN /\ ListDirectoryEntries(store, Append(p, Slash), s, incl, limit) = plain
                 /\ plain.path = p
         /\ ListPath(pRoot) = pRoot
    /\ lastOp.op = "ListDirectoryEntries" =>
         /\ lastOp.p \in {lastOp.passed, Append(lastOp.passed, Slash)}
         /\ lastOp.passed = pRoot \/ ~HasSuffixSlash(lastOp.passed)
         /\ lastOp.entries = StoreListDirectoryEntries(store, lastOp.passed,
                                lastOp.startFileName, lastOp.inclusive, lastOp.limit)

\* "/a/" was listed, with two children in "/a": both were returned.
C7_Witness ==
    /\ lastOp.op = "ListDirectoryEntries"
    /\ lastOp.p = pASlash
    /\ lastOp.passed = pA
    /\ Len(lastOp.entries) = 2

(***************************************************************************)
(* The Directory Cache.                                                    *)
(***************************************************************************)
\* C8: the minutes given at walk level l are 60 - 6 l below level 10 and 60
\* from level 10 on: 54 at level 1, 6 at level 9, and never zero or less.
C8_TTLByLevel ==
    lastOp.op = "cacheSetDirectory" =>
        LET minutes == directoryCache.items[lastOp.dirpath].ttl
            level == lastOp.level
        IN /\ level < 10 => minutes = 60 - 6 * level
           /\ level >= 10 => minutes = 60
           /\ level = 1 => minutes = 54
           /\ level = 9 => minutes = 6
           /\ minutes > 0

\* A directory was cached at level 10, for 60 minutes.
C8_Witness ==
    /\ lastOp.op = "cacheSetDirectory"
    /\ lastOp.level = 10
    /\ directoryCache.items[lastOp.dirpath].ttl = 60

CacheCalls(calls) ==
    SelectSeq(calls, LAMBDA c : c.call \in {"cache.Get", "cache.Set", "cache.Delete"})

AllFlags == {[isRecursive |-> r, shouldDeleteChunks |-> c] : r \in BOOLEAN, c \in BOOLEAN}

\* C9: once DisableDirectoryCache has been called the cache is nil and stays
\* empty, no operation calls it, a CreateEntry looks every ancestor it comes
\* to up in the store, and CreateEntry and DeleteEntryMetaAndData return what
\* they return, and leave the store they leave, with a cache that holds
\* nothing.
C9_DisabledCacheIsBypassed ==
    disabled =>
        /\ directoryCache.nil
        /\ DOMAIN directoryCache.items = {}
        /\ lastOp.op \in {"CreateEntry", "DeleteEntryMetaAndData"} =>
             CacheCalls(lastOp.calls) = <<>>
        /\ (lastOp.op = "CreateEntry" /\ lastOp.ret = OK) =>
             ProperAncestors(lastOp.entry.FullPath)
                 \subseteq Range(PathsOf(lastOp.calls, "FindEntry"))
        /\ \A e \in CreateInputs :
             LET off == CreateEntry(store, directoryCache, e, 0, NoFailure)
                 miss == CreateEntry(store, NewCache, e, 0, NoFailure)
             IN off.ret = miss.ret /\ off.store = miss.store
        /\ \A p \in DeleteInputs, f \in AllFlags :
             LET off == DeleteEntryMetaAndData(DeleteStart, p, f.isRecursive,
                                               f.shouldDeleteChunks, NoFailure)
                 miss == DeleteEntryMetaAndData([DeleteStart EXCEPT !.cache = NewCache],
                                                p, f.isRecursive, f.shouldDeleteChunks,
                                                NoFailure)
             IN off.ret = miss.ret /\ off.store = miss.store

\* With the cache disabled, an entry was created below two directories that
\* were in the store: both were found there, neither was inserted.
C9_Witness ==
    /\ disabled
    /\ lastOp.op = "CreateEntry"
    /\ lastOp.ret = OK
    /\ Len(CallsOf(lastOp.calls, "FindEntry")) = 3
    /\ Len(CallsOf(lastOp.calls, "InsertEntry")) = 1

(***************************************************************************)
(* Reclamation failures.                                                   *)
(***************************************************************************)
FailedInsert(calls) ==
    LET ins == CallsOf(calls, "InsertEntry")
    IN IF ins # <<>> /\ ~ins[Len(ins)].ok THEN Len(ins) ELSE 0

FailedDeletes(calls) ==
    {c.path : c \in Range(SelectSeq(calls, LAMBDA c : c.call = "DeleteEntry" /\ ~c.ok))}

StoreFailuresOnly(calls) ==
    [lookupFail |-> {}, deleteFail |-> {}, deleteEntryFail |-> FailedDeletes(calls)]

\* C10: what CreateEntry and DeleteEntryMetaAndData return, and the store
\* they leave, are what they are when every Chunk Locator and Chunk Deleter
\* call succeeds: a failed reclamation is not an error of the operation and
\* does not keep it from inserting or deleting the entry.
C10_Step ==
    /\ lastOp'.op = "CreateEntry" =>
         LET clean == CreateEntry(store, directoryCache, lastOp'.entry,
                                  FailedInsert(lastOp'.calls), NoFailure)
         IN /\ lastOp'.ret = clean.ret
            /\ store' = clean.store
            /\ FailedInsert(lastOp'.calls) = 0 /\ clean.ret = OK =>
                 /\ lastOp'.entry.FullPath \in DOMAIN store'
                 /\ store'[lastOp'.entry.FullPath] = lastOp'.entry
    /\ lastOp'.op = "DeleteEntryMetaAndData" =>
         LET clean == DeleteEntryMetaAndData(DeleteStart, lastOp'.p, lastOp'.isRecursive,
                                             lastOp'.shouldDeleteChunks,
                                             StoreFailuresOnly(lastOp'.calls))
         IN /\ lastOp'.ret = clean.ret
            /\ store' = clean.store
            /\ lastOp'.ret = OK => lastOp'.p \notin DOMAIN store'

C10_ReclamationFailureIsAbsorbed == [][C10_Step]_vars

FailedChunkCalls(calls) ==
    SelectSeq(calls, LAMBDA c : c.call \in {"LookupFileId", "DeleteFromVolumeServer"} /\ ~c.ok)

\* A delete with shouldDeleteChunks succeeded although the lookup of one chunk
\* and the delete of another failed.
C10_Witness ==
    /\ lastOp.op = "DeleteEntryMetaAndData"
    /\ lastOp.shouldDeleteChunks
    /\ lastOp.ret = OK
    /\ \E c \in Range(FailedChunkCalls(lastOp.calls)) : c.call = "LookupFileId"
    /\ \E c \in Range(FailedChunkCalls(lastOp.calls)) :
            c.call = "DeleteFromVolumeServer" /\ c.url # NoUrl

(***************************************************************************)
(* The paths that reach the Entry Store.                                   *)
(***************************************************************************)
StoreCalls(calls) ==
    SelectSeq(calls, LAMBDA c : c.call \in {"InsertEntry", "FindEntry", "DeleteEntry",
                                             "ListDirectoryEntries"})

\* The paths the last operation passed to the Entry Store.
StorePaths(op) ==
    IF op.op = "ListDirectoryEntries" THEN {op.passed}
    ELSE IF op.op \in {"CreateEntry", "FindEntry", "DeleteEntryMetaAndData"}
    THEN {c.path : c \in Range(StoreCalls(op.calls))}
    ELSE {}

\* C11: every path that CreateEntry, FindEntry, DeleteEntryMetaAndData and
\* ListDirectoryEntries pass to the Entry Store is the root or has no
\* trailing slash, whatever path the caller gave.
C11_StorePathsHaveNoTrailingSlash ==
    \A q \in StorePaths(lastOp) : q = pRoot \/ ~HasSuffixSlash(q)

(***************************************************************************)
(* The order of insert and reclamation in CreateEntry.                     *)
(***************************************************************************)
ReclaimSteps(calls) ==
    {k \in 1..Len(calls) : calls[k].call \in {"LookupFileId", "DeleteFromVolumeServer"}}

TargetInserted(calls, p) ==
    {k \in 1..Len(calls) : calls[k].call = "InsertEntry" /\ calls[k].path = p /\ calls[k].ok}

\* C12: in a CreateEntry every call of the Chunk Locator and of the Chunk
\* Deleter comes after the successful InsertEntry of the target entry; a
\* CreateEntry that returns an error has made no such call.
C12_ReclaimOnlyAfterInsert ==
    lastOp.op = "CreateEntry" =>
        /\ \A k \in ReclaimSteps(lastOp.calls) :
              \E j \in TargetInserted(lastOp.calls, lastOp.entry.FullPath) : j < k
        /\ lastOp.ret # OK => ReclaimSteps(lastOp.calls) = {}

\* An entry with chunks was replaced: the insert is followed by the lookup and
\* the delete of a chunk.
C12_Witness ==
    /\ lastOp.op = "CreateEntry"
    /\ lastOp.ret = OK
    /\ ReclaimSteps(lastOp.calls) # {}
    /\ TargetInserted(lastOp.calls, lastOp.entry.FullPath) # {}

(***************************************************************************)
(* The tree of the entries.                                                *)
(***************************************************************************)
\* The path of the directory that holds k: its longest proper ancestor.
ParentOf(k) ==
    CHOOSE a \in ProperAncestors(k) : \A b \in ProperAncestors(k) : Len(b) <= Len(a)

\* C13: after any sequence of CreateEntry and DeleteEntryMetaAndData calls on
\* an empty store, with a store that never fails, every entry but the root
\* has an entry at its parent path, and that entry is a directory.
C13_EveryEntryHasADirectoryParent ==
    \A k \in DOMAIN store \ {pRoot} :
        ParentOf(k) \in DOMAIN store /\ IsDirectory(store[ParentOf(k)])

(***************************************************************************)
(* The minutes of two levels, one set after the other.                     *)
(***************************************************************************)
SetAtLowerThenHigherLevel ==
    /\ lastOp.op = "cacheSetDirectory"
    /\ lastOp'.op = "cacheSetDirectory"
    /\ lastOp.level < lastOp'.level

MinutesOfLower == directoryCache.items[lastOp.dirpath].ttl

MinutesOfHigher == directoryCache'.items[lastOp'.dirpath].ttl

C14_NonDecreasing_Step == SetAtLowerThenHigherLevel => MinutesOfLower <= MinutesOfHigher

\* C14, as stated: for all levels l1 < l2 the minutes given at l1 are at most
\* the minutes given at l2.
C14_TTLNonDecreasingInLevel == [][C14_NonDecreasing_Step]_vars

C14_Amended_Step ==
    SetAtLowerThenHigherLevel =>
        /\ lastOp'.level < 10 =>
              /\ MinutesOfLower > MinutesOfHigher
              /\ MinutesOfLower - MinutesOfHigher = 6 * (lastOp'.level - lastOp.level)
        /\ lastOp'.level >= 10 =>
              /\ MinutesOfHigher = 60
              /\ MinutesOfLower <= MinutesOfHigher
              /\ lastOp.level < 10 => MinutesOfLower < MinutesOfHigher

\* C14, amended: below level 10 the minutes fall by 6 with every level, so
\* for l1 < l2 < 10 the shallower directory gets the longer time; from level
\* 10 on they are 60, which is at least the minutes of every lower level.
C14_TTLFallsBelowLevel10 == [][C14_Amended_Step]_vars

\* The root was cached at level 1 for 54 minutes, then "/a" at level 2 for 48.
C14_Witness ==
    /\ lastOp.op = "cacheSetDirectory"
    /\ lastOp.level = 2
    /\ lastOp.dirpath = pA
    /\ pRoot \in DOMAIN directoryCache.items
    /\ directoryCache.items[pRoot].ttl = 54
    /\ directoryCache.items[pA].ttl = 48

(***************************************************************************)
(* Chunk reclamation.                                                      *)
(***************************************************************************)
LookupsOf(calls, fileId) ==
    {k \in 1..Len(calls) : calls[k].call = "LookupFileId" /\ calls[k].fileId = fileId}

\* C15: deleteChunksIfNotNew(oldEntry, nil) with an oldEntry that is not nil
\* ends without a fault and has looked up every chunk of oldEntry once.
C15_PureDeleteReclaimsAll ==
    (/\ lastOp.op = "deleteChunksIfNotNew"
     /\ lastOp.oldEntry # Nil
     /\ lastOp.newEntry = Nil)
    => /\ ~lastOp.fault
       /\ Attempted(lastOp.calls) = FileIds(lastOp.oldEntry.Chunks)
       /\ \A id \in FileIds(lastOp.oldEntry.Chunks) :
             Cardinality(LookupsOf(lastOp.calls, id)) = 1

DeleterCalls(calls) ==
    {k \in 1..Len(calls) : calls[k].call = "DeleteFromVolumeServer"}

\* C20: the Chunk Deleter is called for a chunk only after the Chunk Locator
\* has resolved that chunk, and with the location it returned; after a failed
\* lookup no delete is issued for the chunk; every chunk of the batch has
\* its own lookup.
C20_DeleteOnlyAfterResolvedLookup ==
    lastOp.op \in {"deleteChunks", "deleteChunksIfNotNew"} =>
        /\ \A k \in DeleterCalls(lastOp.calls) :
              /\ k > 1
              /\ lastOp.calls[k - 1].call = "LookupFileId"
              /\ lastOp.calls[k - 1].fileId = lastOp.calls[k].fileId
              /\ lastOp.calls[k - 1].ok
              /\ lastOp.calls[k].url = lastOp.calls[k - 1].url
        /\ lastOp.op = "deleteChunks" =>
              \A id \in FileIds(lastOp.chunks) : LookupsOf(lastOp.calls, id) # {}

(***************************************************************************)
(* A DeleteEntryMetaAndData whose store.DeleteEntry fails.                 *)
(***************************************************************************)
\* C19: when DeleteEntryMetaAndData(p, _, true) returns the error of a failed
\* store.DeleteEntry(p), the entry at p is still in the store and none of its
\* chunks has been handed to the Chunk Locator or the Chunk Deleter.
C19_FailedDeleteReclaimsNothing ==
    (/\ lastOp.op = "DeleteEntryMetaAndData"
     /\ lastOp.shouldDeleteChunks
     /\ lastOp.ret = "delete entry")
    => /\ lastOp.p \in DOMAIN store
       /\ FileIds(store[lastOp.p].Chunks) \cap Attempted(lastOp.calls) = {}

(***************************************************************************)
(* Two callers at once.                                                    *)
(***************************************************************************)
AllDone == \A c \in Callers : procs[c].pc = "done"

BothCreate == \A c \in Callers : procs[c].op = "CreateEntry"

TargetOf(c) == procs[c].entry.FullPath

SharedAncestors == ProperAncestors(TargetOf(1)) \cap ProperAncestors(TargetOf(2))

\* Two creates on distinct paths, with an ancestor of both that was not in
\* the store when they started, have both returned.
CreatesRacedForAncestor ==
    /\ AllDone
    /\ BothCreate
    /\ TargetOf(1) # TargetOf(2)
    /\ SharedAncestors \ DOMAIN lastOp.store # {}

\* Both returned nil, both targets are in the store, and every ancestor of
\* both is one directory, put into the store by one of the two.
BothCreated ==
    /\ \A c \in Callers :
          /\ procs[c].ret = OK
          /\ TargetOf(c) \in DOMAIN store
          /\ store[TargetOf(c)] = procs[c].entry
    /\ \A a \in SharedAncestors :
          /\ a \in DOMAIN store
          /\ IsDirectory(store[a])
          /\ a \notin DOMAIN lastOp.store =>
                Cardinality({c \in Callers : a \in procs[c].made}) = 1

\* C16, as stated: with a store that inserts a directory if it is absent, in
\* every interleaving of two CreateEntry calls on distinct paths that share
\* an ancestor not yet in the store, both calls return nil and the store
\* ends with both targets and one directory for each shared ancestor.
C16_RacingCreatesBothSucceed == CreatesRacedForAncestor => BothCreated

\* C16, amended: the same, for two paths neither of which lies below the
\* other and none of whose ancestors was a file when the calls started.
C16_RacingSiblingCreatesBothSucceed ==
    (/\ CreatesRacedForAncestor
     /\ ~Under(TargetOf(1), TargetOf(2))
     /\ ~Under(TargetOf(2), TargetOf(1))
     /\ \A c \in Callers : \A a \in ProperAncestors(TargetOf(c)) \cap DOMAIN lastOp.store :
            IsDirectory(lastOp.store[a]))
    => BothCreated

\* "/a/a" and "/a/b" were created on an empty store, and both callers called
\* InsertEntry for the directory "/a".
C16_Witness ==
    /\ CreatesRacedForAncestor
    /\ {TargetOf(1), TargetOf(2)} = {pAA, pAB}
    /\ \A c \in Callers : pA \in procs[c].mkdirs
    /\ \E c \in Callers : pA \notin procs[c].made

\* C17: when two CreateEntry calls on the same path, which held an entry,
\* with different chunk lists have both returned, no chunk of the entry that
\* is in the store at that path has been handed to reclamation.
C17_FinalEntryKeepsItsChunks ==
    (/\ AllDone
     /\ BothCreate
     /\ TargetOf(1) = TargetOf(2)
     /\ TargetOf(1) \in DOMAIN lastOp.store
     /\ procs[1].entry.Chunks # procs[2].entry.Chunks)
    => FileIds(store[TargetOf(1)].Chunks) \cap (procs[1].reclaimed \cup procs[2].reclaimed) = {}

\* A delete of a directory that was in the store and a create below it have
\* both returned.
DeleteRacedWithCreateBelow(d, c) ==
    /\ AllDone
    /\ procs[d].op = "DeleteEntryMetaAndData"
    /\ procs[c].op = "CreateEntry"
    /\ procs[d].p \in DOMAIN lastOp.store
    /\ IsDirectory(lastOp.store[procs[d].p])
    /\ Under(TargetOf(c), procs[d].p)

\* C18: when a DeleteEntryMetaAndData(p) on a directory p and a CreateEntry
\* below p have both returned, the cache holds a path only if the store has
\* a directory there, and every entry below p has its parent in the store.
C18_DeleteAndCreateLeaveTreeAndCache ==
    \A d \in Callers, c \in Callers :
        DeleteRacedWithCreateBelow(d, c) =>
            /\ \A q \in DOMAIN directoryCache.items :
                  q \in DOMAIN store /\ IsDirectory(store[q])
            /\ \A k \in DOMAIN store :
                  Under(k, procs[d].p) => ParentOf(k) \in DOMAIN store

====
